---- MODULE Spec2Model ----
(***************************************************************************)
(* A model of src/sysmon.py: the run loop of SystemMonitor (select on      *)
(* stdin, read, dispatch to handle_keyboard_input, kill_process, the       *)
(* delayed message-clearing thread, update_layout) as a state machine.     *)
(*                                                                         *)
(* The main loop is one process whose position is pc.  Every thread        *)
(* started by clear_message_after_delay is a second kind of process.  The  *)
(* keyboard (bytes arriving on the terminal), the operating system's       *)
(* process table as seen by psutil, and the passing of time are the        *)
(* environment.                                                            *)
(*                                                                         *)
(* Abstractions: a process-list entry is its pid (the only field the key   *)
(* handler reads); a status message is its fixed text without the          *)
(* interpolated pid and process name; time is counted in seconds.          *)
(***************************************************************************)
EXTENDS Integers, Sequences, FiniteSets

(***************************************************************************)
(* Bounds of the model.                                                    *)
(***************************************************************************)
MaxPid == 2          \* pids of the host are 1..MaxPid
MaxCpu == 1          \* cpu_percent readings are 0..MaxCpu
MaxBuf == 2          \* bytes typed and not yet consumed by the program
MaxThreads == 1      \* delayed-clear threads alive at the same time
MaxBytes == 2        \* the network counters read 0..MaxBytes
MaxClock == 2        \* time.time() reads 0..MaxClock

(***************************************************************************)
(* Constants of the program.                                               *)
(***************************************************************************)
TopN == 10           \* processes[:10]
ClearDelay == 3      \* time.sleep(3) in clear_message_after_delay
WaitTimeout == 2     \* process.wait(timeout=2)

Pids == 1..MaxPid
CpuVals == 0..MaxCpu

\* The bytes the keyboard can send.  ESC is 0x1b and CTRLC is 0x03; "[",
\* "A" and "B" are ordinary characters that also end the arrow sequences.
ESC == "\\x1b"
CTRLC == "\\x03"
Chars == {"k", "K", "y", "Y", "n", "N", "[", "A", "B", ESC, CTRLC}

\* The arguments handle_keyboard_input is called with.
Keys == (Chars \ {ESC, CTRLC}) \cup {"up", "down", "escape"}

\* pending_kill_pid is None or a pid: the empty or a one-element sequence.
None == << >>
Some(p) == << p >>

Modes == {"normal", "select", "confirm"}
Colors == {"white", "yellow", "green", "red"}

MsgNone == ""
MsgCancelSelect == "Cancelled process selection"
MsgKillCancelled == "Kill cancelled"
MsgTerminated == "Successfully terminated"
MsgForceKilled == "Force killed"
MsgNoLongerExists == "Process no longer exists"
MsgDenied == "Permission denied to kill process"
MsgError == "Error killing process"
Messages == {MsgNone, MsgCancelSelect, MsgKillCancelled, MsgTerminated,
             MsgForceKilled, MsgNoLongerExists, MsgDenied, MsgError}

VARIABLES
    input_mode,        \* self.input_mode
    selected_process,  \* self.selected_process
    top_processes,     \* self.top_processes, as the sequence of its pids
    pending_kill_pid,  \* self.pending_kill_pid
    message,           \* self.message
    message_color,     \* self.message_color
    fdbuf,             \* bytes queued on the terminal, what select() sees
    pybuf,             \* characters sys.stdin has read ahead and not returned
    pc,                \* position of the main loop
    col_next,          \* the colour the main loop's next statement assigns
    kwait,             \* seconds spent in process.wait(timeout=2)
    thr,               \* the delayed-clear threads
    msgAge,            \* seconds the message on display has been set for
    last_key,          \* the key this iteration gave the handler, or "none"
    actions,           \* what kill_process was called with for that key
    ktrace,            \* what the kill_process call in progress has done
    term,              \* the terminal's mode: "cooked" or "raw"
    network_stats_prev,   \* self.network_stats_prev: bytes_sent, bytes_recv
    network_update_time,  \* self.network_update_time
    upload_speed,         \* upload_speed of the last get_network_info
    download_speed,       \* download_speed of the last get_network_info
    time_delta,           \* time_delta of the last get_network_info
    net_sample            \* what psutil and the clock returned to it

netvars == << network_stats_prev, network_update_time, upload_speed,
             download_speed, time_delta, net_sample >>

vars == << input_mode, selected_process, top_processes, pending_kill_pid,
           message, message_color, fdbuf, pybuf, pc, col_next, kwait, thr,
           msgAge, last_key, actions, ktrace, term, netvars >>

interaction == << input_mode, selected_process, pending_kill_pid,
                  message, message_color >>

Min(a, b) == IF a < b THEN a ELSE b

\* str.lower() on the keys of the model.
Lower(key) ==
    CASE key = "K" -> "k"
      [] key = "Y" -> "y"
      [] key = "N" -> "n"
      [] key = "A" -> "a"
      [] key = "B" -> "b"
      [] OTHER -> key

(***************************************************************************)
(* handle_keyboard_input.  The handler is described by what one call       *)
(* assigns: mode, sel and pend are the values of input_mode,               *)
(* selected_process and pending_kill_pid after the call; msg and col are   *)
(* the values assigned to message and message_color, or Keep when the      *)
(* branch taken assigns none; kill is the argument of the kill_process     *)
(* call the branch makes, or None.                                         *)
(***************************************************************************)
Keep == "keep"

Unchanged ==
    [mode |-> input_mode, sel |-> selected_process, pend |-> pending_kill_pid,
     msg |-> Keep, col |-> Keep, kill |-> None]

\* Line 376: self.selected_process > 0
CanMoveUp == selected_process > 0

\* A bound that is off by one: the index may move onto len(top_processes).
CanMoveDown_OffByOne == selected_process < Len(top_processes)

\* Line 378: self.selected_process < len(self.top_processes) - 1
CanMoveDown == selected_process < Len(top_processes) - 1

\* Lines 381-383: self.top_processes and self.selected_process < len(...)
CanConfirm ==
    /\ Len(top_processes) > 0
    /\ selected_process < Len(top_processes)

\* The pid of the first row whatever row is selected.
SelectedPid_FirstRow == top_processes[1]

\* Lines 384-386: self.top_processes[self.selected_process]["pid"]
SelectedPid == top_processes[selected_process + 1]

\* Line 372 left out: the row selected last time stays selected.
HandleNormal_KeepsIndex(key) ==
    IF Lower(key) = "k"
    THEN [Unchanged EXCEPT !.mode = "select", !.msg = MsgNone]
    ELSE Unchanged

\* Lines 369-373
HandleNormal(key) ==
    IF Lower(key) = "k"
    THEN [Unchanged EXCEPT !.mode = "select", !.sel = 0, !.msg = MsgNone]
    ELSE Unchanged

\* Line 387 moved out of the if of line 381: 'k' always asks for
\* confirmation, with or without a pid.
HandleSelect_AlwaysConfirms(key) ==
    IF key = "up" /\ CanMoveUp
    THEN [Unchanged EXCEPT !.sel = selected_process - 1]
    ELSE IF key = "down" /\ CanMoveDown
    THEN [Unchanged EXCEPT !.sel = selected_process + 1]
    ELSE IF Lower(key) = "k"
    THEN IF CanConfirm
         THEN [Unchanged EXCEPT !.pend = Some(SelectedPid), !.mode = "confirm"]
         ELSE [Unchanged EXCEPT !.mode = "confirm"]
    ELSE IF key = "escape"
    THEN [Unchanged EXCEPT !.mode = "normal", !.msg = MsgCancelSelect,
                           !.col = "yellow"]
    ELSE Unchanged

\* Lines 375-391
HandleSelect(key) ==
    IF key = "up" /\ CanMoveUp
    THEN [Unchanged EXCEPT !.sel = selected_process - 1]
    ELSE IF key = "down" /\ CanMoveDown
    THEN [Unchanged EXCEPT !.sel = selected_process + 1]
    ELSE IF Lower(key) = "k"
    THEN IF CanConfirm
         THEN [Unchanged EXCEPT !.pend = Some(SelectedPid), !.mode = "confirm"]
         ELSE Unchanged
    ELSE IF key = "escape"
    THEN [Unchanged EXCEPT !.mode = "normal", !.msg = MsgCancelSelect,
                           !.col = "yellow"]
    ELSE Unchanged

\* Line 401 left out: cancelling keeps the pending pid.
HandleConfirm_KeepsPid(key) ==
    IF Lower(key) = "y"
    THEN IF pending_kill_pid # None
         THEN [Unchanged EXCEPT !.kill = pending_kill_pid]
         ELSE [Unchanged EXCEPT !.mode = "normal", !.pend = None]
    ELSE IF Lower(key) = "n" \/ key = "escape"
    THEN [Unchanged EXCEPT !.mode = "normal",
                           !.msg = MsgKillCancelled, !.col = "yellow"]
    ELSE Unchanged

\* key == "y" in place of key.lower() == "y": 'Y' does not confirm.
HandleConfirm_LowerCaseOnly(key) ==
    IF key = "y"
    THEN IF pending_kill_pid # None
         THEN [Unchanged EXCEPT !.kill = pending_kill_pid]
         ELSE [Unchanged EXCEPT !.mode = "normal", !.pend = None]
    ELSE IF Lower(key) = "n" \/ key = "escape"
    THEN [Unchanged EXCEPT !.mode = "normal", !.pend = None,
                           !.msg = MsgKillCancelled, !.col = "yellow"]
    ELSE Unchanged

\* Escape taken for a confirmation: every key but 'n' kills.
HandleConfirm_EscapeKills(key) ==
    IF Lower(key) = "y" \/ key = "escape"
    THEN IF pending_kill_pid # None
         THEN [Unchanged EXCEPT !.kill = pending_kill_pid]
         ELSE [Unchanged EXCEPT !.mode = "normal", !.pend = None]
    ELSE IF Lower(key) = "n"
    THEN [Unchanged EXCEPT !.mode = "normal", !.pend = None,
                           !.msg = MsgKillCancelled, !.col = "yellow"]
    ELSE Unchanged

\* An else in place of the elif of line 399: every key but 'y' cancels.
HandleConfirm_AnyKeyCancels(key) ==
    IF Lower(key) = "y"
    THEN IF pending_kill_pid # None
         THEN [Unchanged EXCEPT !.kill = pending_kill_pid]
         ELSE [Unchanged EXCEPT !.mode = "normal", !.pend = None]
    ELSE [Unchanged EXCEPT !.mode = "normal", !.pend = None,
                           !.msg = MsgKillCancelled, !.col = "yellow"]

\* Lines 393-403.  On 'y' with a pending pid the call of kill_process comes
\* first; lines 397-398 run when it has returned (action AfterKill).
HandleConfirm(key) ==
    IF Lower(key) = "y"
    THEN IF pending_kill_pid # None
         THEN [Unchanged EXCEPT !.kill = pending_kill_pid]
         ELSE [Unchanged EXCEPT !.mode = "normal", !.pend = None]
    ELSE IF Lower(key) = "n" \/ key = "escape"
    THEN [Unchanged EXCEPT !.mode = "normal", !.pend = None,
                           !.msg = MsgKillCancelled, !.col = "yellow"]
    ELSE Unchanged

\* Lines 367-403
handle_keyboard_input(key) ==
    CASE input_mode = "normal" -> HandleNormal(key)
      [] input_mode = "select" -> HandleSelect(key)
      [] input_mode = "confirm" -> HandleConfirm(key)
      [] OTHER -> Unchanged

(***************************************************************************)
(* One call of handle_keyboard_input from the loop, up to its first        *)
(* assignment of message_color or its call of kill_process.  via is        *)
(* "char" for the call of line 539, which is followed by the check of      *)
(* line 540, and "esc" for the calls of lines 531-537, which are not.      *)
(***************************************************************************)
AfterHandler(via) == IF via = "char" THEN "chk" ELSE "render"

Dispatch(key, via) ==
    LET r == handle_keyboard_input(key) IN
    /\ last_key' = key
    /\ IF r.kill # None
       THEN /\ pc' = "kill_call"
            /\ actions' = r.kill
            /\ UNCHANGED << input_mode, selected_process, pending_kill_pid,
                            message, message_color, col_next, msgAge >>
       ELSE /\ input_mode' = r.mode
            /\ selected_process' = r.sel
            /\ pending_kill_pid' = r.pend
            /\ message' = IF r.msg = Keep THEN message ELSE r.msg
            /\ msgAge' = IF r.msg = Keep THEN msgAge ELSE 0
            /\ col_next' = IF r.col = Keep THEN "none" ELSE r.col
            /\ pc' = IF r.col = Keep THEN AfterHandler(via)
                     ELSE IF via = "char" THEN "h_color_c" ELSE "h_color_e"
            /\ actions' = None
            /\ UNCHANGED message_color

(***************************************************************************)
(* sys.stdin.  select() looks at the terminal's queue (fdbuf).  A read on  *)
(* sys.stdin first returns what sys.stdin holds from an earlier read       *)
(* (pybuf); when that is not enough it takes all the bytes queued on the   *)
(* terminal, returns what was asked for and keeps the rest.                *)
(***************************************************************************)
Available == pybuf \o fdbuf

Drop(s, n) == SubSeq(s, n + 1, Len(s))

\* sys.stdin.read(n) when n characters can be had: the characters returned.
ReadChars(n) == SubSeq(Available, 1, n)

\* The stream after sys.stdin.read(n).
ReadLeaves(n) ==
    IF Len(pybuf) >= n
    THEN /\ pybuf' = Drop(pybuf, n)
         /\ fdbuf' = fdbuf
    ELSE /\ pybuf' = Drop(Available, n)
         /\ fdbuf' = << >>

\* Lines 529-535: the key the two characters after an escape stand for.
DecodeEscape(two) ==
    IF two = << "[", "A" >> THEN "up"
    ELSE IF two = << "[", "B" >> THEN "down"
    ELSE "escape"

(***************************************************************************)
(* The terminal.  run saves the settings (line 511) and puts the terminal  *)
(* into raw mode (line 513) inside the try whose finally clause puts the   *)
(* saved settings back (lines 548-549).                                    *)
(***************************************************************************)
\* No finally clause: run returns and the terminal stays as it is.
RunFinally_Forgotten ==
    /\ term' = term
    /\ pc' = "done"

\* Lines 548-549: on the way out of the try the finally clause puts the
\* saved settings back; run returns.
RunFinally ==
    /\ term' = "cooked"
    /\ pc' = "done"

\* Line 519: select() finds nothing to read; the loop goes on to line 543.
PollIdle ==
    /\ pc = "poll"
    /\ fdbuf = << >>
    /\ pc' = "render"
    /\ UNCHANGED << interaction, top_processes, fdbuf, pybuf, col_next, kwait,
                    thr, msgAge, last_key, actions, ktrace, term, netvars >>

\* Lines 519-526: Ctrl+C breaks out of the loop, through the finally clause.
PollInterrupt ==
    /\ pc = "poll"
    /\ fdbuf # << >>
    /\ ReadChars(1) = << CTRLC >>
    /\ ReadLeaves(1)
    /\ RunFinally
    /\ UNCHANGED << interaction, top_processes, col_next, kwait, thr, msgAge,
                    last_key, actions, ktrace, netvars >>

\* Lines 519-529: an escape byte; the loop goes on to sys.stdin.read(2).
PollEscape ==
    /\ pc = "poll"
    /\ fdbuf # << >>
    /\ ReadChars(1) = << ESC >>
    /\ ReadLeaves(1)
    /\ pc' = "read2"
    /\ UNCHANGED << interaction, top_processes, col_next, kwait, thr, msgAge,
                    last_key, actions, ktrace, term, netvars >>

\* Lines 519-539: any other character goes to the handler.
PollChar ==
    /\ pc = "poll"
    /\ fdbuf # << >>
    /\ ReadChars(1)[1] \notin {ESC, CTRLC}
    /\ ReadLeaves(1)
    /\ Dispatch(ReadChars(1)[1], "char")
    /\ UNCHANGED << top_processes, kwait, thr, ktrace, term, netvars >>

\* Lines 529-535: sys.stdin.read(2) returns once two characters are there.
ReadTwo ==
    /\ pc = "read2"
    /\ Len(Available) >= 2
    /\ ReadLeaves(2)
    /\ Dispatch(DecodeEscape(ReadChars(2)), "esc")
    /\ UNCHANGED << top_processes, kwait, thr, ktrace, term, netvars >>

\* The second statement of a branch that sets a message: message_color.
SetColor ==
    /\ pc \in {"h_color_c", "h_color_e"}
    /\ message_color' = col_next
    /\ col_next' = "none"
    /\ pc' = IF pc = "h_color_c" THEN "chk" ELSE "render"
    /\ UNCHANGED << input_mode, selected_process, top_processes,
                    pending_kill_pid, message, fdbuf, pybuf, kwait, thr,
                    msgAge, last_key, actions, ktrace, term, netvars >>

(***************************************************************************)
(* kill_process(pid), called with pending_kill_pid from line 396.  What    *)
(* psutil answers is the environment's choice.  ktrace lists what the call *)
(* has done so far: "terminate" (process.terminate() returned), "exited"   *)
(* (process.wait returned), "timeout" (it raised TimeoutExpired), "kill"   *)
(* (process.kill() was called) and the exception an except clause caught.  *)
(***************************************************************************)
KillFailures == {"NoSuchProcess", "AccessDenied", "Exception"}

\* Lines 425-433: the message of each except clause.
FailureMessage(e) ==
    CASE e = "NoSuchProcess" -> MsgNoLongerExists
      [] e = "AccessDenied" -> MsgDenied
      [] OTHER -> MsgError

\* Every except clause reports in red.
FailureColor_AllRed(e) ==
    CASE e = "NoSuchProcess" -> "red"
      [] e = "AccessDenied" -> "red"
      [] OTHER -> "red"

\* Lines 425-433: the colour of each except clause.
FailureColor(e) ==
    CASE e = "NoSuchProcess" -> "yellow"
      [] e = "AccessDenied" -> "red"
      [] OTHER -> "red"

\* The first statement of an outcome of kill_process: self.message = ...
KillMessage(msg, col) ==
    /\ message' = msg
    /\ msgAge' = 0
    /\ col_next' = col
    /\ pc' = "k_color"

\* Lines 408-412: psutil.Process(pid), process.name(), process.terminate().
KillCall ==
    /\ pc = "kill_call"
    /\ \/ /\ pc' = "kill_wait"
          /\ ktrace' = << "terminate" >>
          /\ UNCHANGED << message, msgAge, col_next >>
       \/ \E e \in KillFailures :
             /\ KillMessage(FailureMessage(e), FailureColor(e))
             /\ ktrace' = << e >>
    /\ kwait' = 0
    /\ UNCHANGED << input_mode, selected_process, top_processes,
                    pending_kill_pid, message_color, fdbuf, pybuf, thr,
                    last_key, actions, term, netvars >>

\* Lines 416-418: process.wait(timeout=2) returns, the process has exited.
KillWaitReturns ==
    /\ pc = "kill_wait"
    /\ KillMessage(MsgTerminated, "green")
    /\ ktrace' = Append(ktrace, "exited")
    /\ kwait' = 0
    /\ UNCHANGED << input_mode, selected_process, top_processes,
                    pending_kill_pid, message_color, fdbuf, pybuf, thr,
                    last_key, actions, term, netvars >>

\* The wait gives up at once: TimeoutExpired before the 2 seconds are over.
KillWaitTimeout_Immediate ==
    /\ pc = "kill_wait"
    /\ pc' = "kill_force"
    /\ ktrace' = Append(ktrace, "timeout")
    /\ kwait' = 0
    /\ UNCHANGED << interaction, top_processes, fdbuf, pybuf, col_next, thr,
                    msgAge, last_key, actions, term, netvars >>

\* Line 419: process.wait(timeout=2) raises TimeoutExpired after 2 seconds.
KillWaitTimeout ==
    /\ pc = "kill_wait"
    /\ kwait = WaitTimeout
    /\ pc' = "kill_force"
    /\ ktrace' = Append(ktrace, "timeout")
    /\ kwait' = 0
    /\ UNCHANGED << interaction, top_processes, fdbuf, pybuf, col_next, thr,
                    msgAge, last_key, actions, term, netvars >>

\* Lines 421-423: process.kill(), which may raise into lines 425-433.
KillForce ==
    /\ pc = "kill_force"
    /\ \/ /\ KillMessage(MsgForceKilled, "red")
          /\ ktrace' = Append(ktrace, "kill")
       \/ \E e \in KillFailures :
             /\ KillMessage(FailureMessage(e), FailureColor(e))
             /\ ktrace' = ktrace \o << "kill", e >>
    /\ UNCHANGED << input_mode, selected_process, top_processes,
                    pending_kill_pid, message_color, fdbuf, pybuf, kwait, thr,
                    last_key, actions, term, netvars >>

\* The second statement of an outcome of kill_process: self.message_color.
KillColor ==
    /\ pc = "k_color"
    /\ message_color' = col_next
    /\ col_next' = "none"
    /\ pc' = "h_ret"
    /\ UNCHANGED << input_mode, selected_process, top_processes,
                    pending_kill_pid, message, fdbuf, pybuf, kwait, thr,
                    msgAge, last_key, actions, ktrace, term, netvars >>

\* Lines 397-398 left out: the mode and the pending pid stay as they were.
AfterKill_Unapplied ==
    /\ pc = "h_ret"
    /\ pc' = "chk"
    /\ ktrace' = << >>
    /\ UNCHANGED << interaction, top_processes, fdbuf, pybuf, col_next, kwait,
                    thr, msgAge, last_key, actions, term, netvars >>

\* Lines 397-398, after kill_process has returned.
AfterKill ==
    /\ pc = "h_ret"
    /\ input_mode' = "normal"
    /\ pending_kill_pid' = None
    /\ pc' = "chk"
    /\ ktrace' = << >>
    /\ UNCHANGED << selected_process, top_processes, message, message_color,
                    fdbuf, pybuf, col_next, kwait, thr, msgAge, last_key,
                    actions, term, netvars >>

(***************************************************************************)
(* clear_message_after_delay and its threads.  A thread sleeps ClearDelay  *)
(* seconds (rem counts down), assigns message, then assigns message_color. *)
(***************************************************************************)
Threads == 1..MaxThreads

Idle == [st |-> "idle", rem |-> 0]

FreeSlots == {i \in Threads : thr[i].st = "idle"}

\* Line 540: self.message and self.message_color != "white"
ShouldClear == message # MsgNone /\ message_color # "white"

\* Lines 540-541 and 443: the check holds and a thread is started.  The
\* model holds MaxThreads threads: the start of one more waits for one of
\* them to end.
ScheduleClear ==
    /\ pc = "chk"
    /\ ShouldClear
    /\ FreeSlots # {}
    /\ LET i == CHOOSE j \in FreeSlots : \A k \in FreeSlots : j <= k IN
       thr' = [thr EXCEPT ![i] = [st |-> "sleep", rem |-> ClearDelay]]
    /\ pc' = "render"
    /\ UNCHANGED << interaction, top_processes, fdbuf, pybuf, col_next, kwait,
                    msgAge, last_key, actions, ktrace, term, netvars >>

\* Line 540: the check fails.
SkipClear ==
    /\ pc = "chk"
    /\ ~ShouldClear
    /\ pc' = "render"
    /\ UNCHANGED << interaction, top_processes, fdbuf, pybuf, col_next, kwait,
                    thr, msgAge, last_key, actions, ktrace, term, netvars >>

\* Lines 439-440: the sleep is over; self.message = "".
ThreadClearMessage(i) ==
    /\ thr[i].st = "sleep"
    /\ thr[i].rem = 0
    /\ message' = MsgNone
    /\ msgAge' = 0
    /\ thr' = [thr EXCEPT ![i] = [st |-> "mid", rem |-> 0]]
    /\ UNCHANGED << input_mode, selected_process, top_processes,
                    pending_kill_pid, message_color, fdbuf, pybuf, pc,
                    col_next, kwait, last_key, actions, ktrace, term, netvars >>

\* Line 441: self.message_color = "white"; the thread ends.
ThreadClearColor(i) ==
    /\ thr[i].st = "mid"
    /\ message_color' = "white"
    /\ thr' = [thr EXCEPT ![i] = Idle]
    /\ UNCHANGED << input_mode, selected_process, top_processes,
                    pending_kill_pid, message, fdbuf, pybuf, pc, col_next,
                    kwait, msgAge, last_key, actions, ktrace, term, netvars >>

(***************************************************************************)
(* update_layout: get_top_processes stores the ten processes with the      *)
(* highest cpu_percent.  process_iter yields the live processes in         *)
(* ascending pid order and list.sort is stable, so equal readings stay in  *)
(* pid order.  A reading of None counts as 0 (x["cpu_percent"] or 0) and   *)
(* is the reading 0 here.                                                  *)
(***************************************************************************)
Before(p, q, cpu) == cpu[p] > cpu[q] \/ (cpu[p] = cpu[q] /\ p <= q)

RECURSIVE SortByCpu(_, _)
\* Line 283: processes.sort(key=..., reverse=True)
SortByCpu(S, cpu) ==
    IF S = {} THEN << >>
    ELSE LET first == CHOOSE p \in S : \A q \in S : Before(p, q, cpu)
         IN << first >> \o SortByCpu(S \ {first}, cpu)

\* Line 284: processes[:10]
Take(s, n) == SubSeq(s, 1, Min(n, Len(s)))

\* Lines 271-284
get_top_processes(live, cpu) == Take(SortByCpu(live, cpu), TopN)

\* Line 543: update_layout(layout); the panels are rebuilt.
Render ==
    /\ pc = "render"
    /\ \E live \in SUBSET Pids : \E cpu \in [Pids -> CpuVals] :
          top_processes' = get_top_processes(live, cpu)
    /\ pc' = "sleep"
    /\ UNCHANGED << interaction, fdbuf, pybuf, col_next, kwait, thr, msgAge,
                    last_key, actions, ktrace, term, netvars >>

\* Lines 474-479: the sources update_layout calls, in the order of the calls.
Sources == << "system_info", "cpu_mem", "gpu", "network", "processes",
              "disk" >>

Position(src) == CHOOSE i \in 1..Len(Sources) : Sources[i] = src

\* Lines 172-225: get_gpu_info catches what its queries raise and puts an
\* error row into its own panel.  No other source catches its exceptions
\* (get_disk_usage catches PermissionError alone, line 353).
Guarded == {"gpu"}

\* The sources whose exception leaves update_layout.
Unguarded == {Sources[i] : i \in 1..Len(Sources)} \ Guarded

\* Lines 474-479 and 545: a source raises.  The panels before it have been
\* updated; the calls after it are not made.  self.top_processes is
\* assigned (line 284) only when get_top_processes ran to its end before
\* the failing source was called.  The exception is caught at line 545.
RenderFails ==
    /\ pc = "render"
    /\ \E src \in Unguarded :
          IF Position(src) > Position("processes")
          THEN \E live \in SUBSET Pids : \E cpu \in [Pids -> CpuVals] :
                  top_processes' = get_top_processes(live, cpu)
          ELSE top_processes' = top_processes
    /\ pc' = "except"
    /\ UNCHANGED << interaction, fdbuf, pybuf, col_next, kwait, thr, msgAge,
                    last_key, actions, ktrace, term, netvars >>

\* Line 544: await asyncio.sleep(0.1) is over; the next iteration starts.
Sleep ==
    /\ pc = "sleep"
    /\ pc' = "poll"
    /\ last_key' = "none"
    /\ actions' = None
    /\ UNCHANGED << interaction, top_processes, fdbuf, pybuf, col_next, kwait,
                    thr, msgAge, ktrace, term, netvars >>

(***************************************************************************)
(* The environment: the keyboard and the clock.                            *)
(***************************************************************************)
\* A byte arrives on the terminal.  The program looks at the terminal only
\* in select() and in the reads, so a byte that arrives at any other moment
\* is a byte that arrives just before the next of these.
Type(b) ==
    /\ pc \in {"poll", "read2"}
    /\ Len(Available) < MaxBuf
    /\ fdbuf' = Append(fdbuf, b)
    /\ UNCHANGED << interaction, top_processes, pybuf, pc, col_next, kwait,
                    thr, msgAge, last_key, actions, ktrace, term, netvars >>

\* The main loop is blocked: asleep (line 544, or line 547 after an
\* exception), waiting for the process to exit, in sys.stdin.read(2) without
\* two characters to read, or held back by the bound on the number of
\* threads.
Blocked ==
    \/ pc = "sleep"
    \/ pc = "except"
    \/ pc = "kill_wait"
    \/ pc = "read2" /\ Len(Available) < 2
    \/ pc = "chk" /\ ShouldClear /\ FreeSlots = {}

\* One second passes while the main loop is blocked.  A thread whose sleep
\* is over runs before the next second does, and so does a timed-out wait.
\* The sleep of line 544 lasts a tenth of a second: it is over when the
\* second is, and the next iteration starts as in Sleep.  The sleep of line
\* 547 lasts the second, and the next iteration starts.
Advance ==
    /\ Blocked
    /\ \A i \in Threads : thr[i].st = "sleep" => thr[i].rem > 0
    /\ \A i \in Threads : thr[i].st # "mid"
    /\ pc = "kill_wait" => kwait < WaitTimeout
    /\ thr' = [i \in Threads |->
                 IF thr[i].st = "sleep"
                 THEN [thr[i] EXCEPT !.rem = thr[i].rem - 1]
                 ELSE thr[i]]
    /\ kwait' = IF pc = "kill_wait" THEN kwait + 1 ELSE kwait
    /\ msgAge' = IF message # MsgNone THEN Min(msgAge + 1, ClearDelay + 1)
                 ELSE msgAge
    /\ pc' = IF pc \in {"sleep", "except"} THEN "poll" ELSE pc
    /\ last_key' = IF pc \in {"sleep", "except"} THEN "none" ELSE last_key
    /\ actions' = IF pc \in {"sleep", "except"} THEN None ELSE actions
    /\ UNCHANGED << interaction, top_processes, fdbuf, pybuf, col_next, ktrace, term, netvars >>

(***************************************************************************)
(* The start of run and the exceptions that come from outside the loop.    *)
(***************************************************************************)
\* Lines 511-516: tcgetattr, tty.setraw, Live; the loop starts.
EnterRaw ==
    /\ pc = "start"
    /\ term' = "raw"
    /\ pc' = "poll"
    /\ UNCHANGED << interaction, top_processes, fdbuf, pybuf, col_next, kwait,
                    thr, msgAge, last_key, actions, ktrace, netvars >>

\* The positions inside the try of lines 528-535, whose bare except clause
\* (line 536) catches every exception, KeyboardInterrupt included.
InnerTryPcs == {"read2", "h_color_e"}

\* An exception that is not an Exception is raised in the main loop: a
\* KeyboardInterrupt from a signal, the cancellation of the task, or an
\* exception raised by the handler of line 545 itself.  Inside the try of
\* line 528 it is caught at line 536 and the handler is called with
\* "escape".  Everywhere else nothing catches it: the finally clause runs,
\* run is left and with it the program (main, lines 552-561).  The fields of
\* the monitor and the bytes on the terminal stay as they are; the locals
\* of the loop, the daemon threads and what sys.stdin has read ahead end
\* with the program.
Interrupt ==
    /\ pc \notin {"start", "done"}
    /\ IF pc \in InnerTryPcs
       THEN /\ Dispatch("escape", "esc")
            /\ UNCHANGED << kwait, ktrace, term, pybuf, thr >>
       ELSE /\ RunFinally
            /\ col_next' = "none"
            /\ kwait' = 0
            /\ last_key' = "none"
            /\ actions' = None
            /\ pybuf' = << >>
            /\ thr' = [i \in Threads |-> Idle]
            /\ msgAge' = 0
            /\ UNCHANGED << interaction, ktrace >>
    /\ UNCHANGED << top_processes, fdbuf, netvars >>

(***************************************************************************)
(* get_network_info, lines 231-249.  A counter sample is the pair of       *)
(* bytes_sent and bytes_recv.  A speed is the quotient the code computes,  *)
(* kept as numerator and denominator: a denominator of 0 is the division   *)
(* that raises ZeroDivisionError.                                          *)
(***************************************************************************)
NetCounters == [bytes_sent : 0..MaxBytes, bytes_recv : 0..MaxBytes]

Clock == 0..MaxClock

Quotient(a, b) == [num |-> a, den |-> b]

\* Line 246: upload_speed = download_speed = 0
ZeroSpeed == Quotient(0, 1)

\* The guard of line 235 left out: the division is always made.
Speed_Unguarded(delta, elapsed) == Quotient(delta, elapsed)

\* Lines 235-246 for one of the two counters.
Speed(delta, elapsed) ==
    IF elapsed > 0 THEN Quotient(delta, elapsed) ELSE ZeroSpeed

\* A sample: what psutil.net_io_counters() and time.time() return.
Sample(stats, time) == [stats |-> stats, time |-> time]

\* Lines 231-249
get_network_info(current_stats, current_time) ==
    /\ net_sample' = Sample(current_stats, current_time)
    /\ time_delta' = current_time - network_update_time
    /\ upload_speed' =
          Speed(current_stats.bytes_sent - network_stats_prev.bytes_sent,
                current_time - network_update_time)
    /\ download_speed' =
          Speed(current_stats.bytes_recv - network_stats_prev.bytes_recv,
                current_time - network_update_time)
    /\ network_stats_prev' = current_stats
    /\ network_update_time' = current_time

\* Lines 43-53 and 501-509: the monitor as constructed, run not yet started.
InitLoop ==
    /\ input_mode = "normal"
    /\ selected_process = 0
    /\ top_processes = << >>
    /\ pending_kill_pid = None
    /\ message = MsgNone
    /\ message_color = "white"
    /\ fdbuf = << >>
    /\ pybuf = << >>
    /\ pc = "start"
    /\ col_next = "none"
    /\ kwait = 0
    /\ thr = [i \in Threads |-> Idle]
    /\ msgAge = 0
    /\ last_key = "none"
    /\ actions = None
    /\ ktrace = << >>
    /\ term = "cooked"

\* Lines 46-47: the first sample of the counters and of the clock.
InitNet ==
    /\ network_stats_prev \in NetCounters
    /\ network_update_time \in Clock
    /\ upload_speed = ZeroSpeed
    /\ download_speed = ZeroSpeed
    /\ time_delta = 0
    /\ net_sample = Sample(network_stats_prev, network_update_time)

\* The loop is followed from one first sample: it does not read the
\* network variables.
Init ==
    /\ InitLoop
    /\ network_stats_prev = [bytes_sent |-> 0, bytes_recv |-> 0]
    /\ network_update_time = 0
    /\ upload_speed = ZeroSpeed
    /\ download_speed = ZeroSpeed
    /\ time_delta = 0
    /\ net_sample = Sample(network_stats_prev, network_update_time)

MainStep ==
    \/ EnterRaw
    \/ PollIdle
    \/ PollInterrupt
    \/ PollEscape
    \/ PollChar
    \/ ReadTwo
    \/ SetColor
    \/ KillCall
    \/ KillWaitReturns
    \/ KillWaitTimeout
    \/ KillForce
    \/ KillColor
    \/ AfterKill
    \/ ScheduleClear
    \/ SkipClear
    \/ Render
    \/ RenderFails
    \/ Sleep

ThreadStep == \E i \in Threads : ThreadClearMessage(i) \/ ThreadClearColor(i)

Next ==
    \/ MainStep
    \/ ThreadStep
    \/ \E b \in Chars : Type(b)
    \/ Advance

Spec == Init /\ [][Next]_vars

\* The loop with exceptions raised from outside at any point.  The keyboard
\* sends one byte for each branch of lines 524-539 and of the handler.
ExitChars == {"k", "y", "n", "[", "A", ESC, CTRLC}

NextExit ==
    \/ MainStep
    \/ ThreadStep
    \/ \E b \in ExitChars : Type(b)
    \/ Advance
    \/ Interrupt

SpecExit == Init /\ [][NextExit]_vars

\* get_network_info called again and again, on any samples.
loopvars == << interaction, top_processes, fdbuf, pybuf, pc, col_next, kwait,
              thr, msgAge, last_key, actions, ktrace, term >>

NetworkInfo ==
    /\ \E current_stats \in NetCounters : \E current_time \in Clock :
          get_network_info(current_stats, current_time)
    /\ UNCHANGED loopvars

InitNetwork == InitLoop /\ InitNet

SpecNet == InitNetwork /\ [][NetworkInfo]_vars

TypeOK ==
    /\ input_mode \in Modes
    /\ selected_process \in Nat
    /\ pending_kill_pid \in {None} \cup {Some(p) : p \in Pids}
    /\ message \in Messages
    /\ message_color \in Colors
    /\ msgAge \in 0..(ClearDelay + 1)
    /\ kwait \in 0..WaitTimeout
    /\ term \in {"cooked", "raw"}

(***************************************************************************)
(* Properties.                                                             *)
(***************************************************************************)
\* The positions of the main loop inside kill_process.
KillPcs == {"kill_call", "kill_wait", "kill_force", "k_color"}

\* The positions after the handler has returned, before the iteration ends.
ReturnedPcs == {"chk", "render", "sleep"}

\* This step calls handle_keyboard_input: the iteration had given it no key
\* and now has.
HandlerCall == last_key = "none" /\ last_key' # "none"

\* C1: in every reachable state the mode is one of normal, select and
\* confirm, and pending_kill_pid is set exactly when the mode is confirm.
C1_ModeAndPendingPid ==
    /\ input_mode \in Modes
    /\ (pending_kill_pid # None) <=> (input_mode = "confirm")

\* A rendered confirmation prompt for pid 2.
C1_Witness ==
    /\ input_mode = "confirm"
    /\ pending_kill_pid = Some(2)
    /\ pc = "sleep"

\* C2: 'y' or 'Y' in confirm mode calls kill_process once, with
\* pending_kill_pid; no second call is made for the same key; and when the
\* handler has returned the mode is normal and pending_kill_pid is None.
C2_YesKillsPendingOnce ==
    /\ [][(HandlerCall /\ input_mode = "confirm" /\ Lower(last_key') = "y")
            => (/\ pc' = "kill_call"
                /\ actions' = pending_kill_pid
                /\ Len(actions') = 1
                /\ pending_kill_pid' = pending_kill_pid)]_vars
    /\ [][(actions' # actions) => (HandlerCall \/ last_key' = "none")]_vars
    /\ [][(pc \in KillPcs /\ pc' \notin KillPcs) => pc' = "h_ret"]_vars
    /\ []((pc \in KillPcs \cup {"h_ret"})
            => (actions = pending_kill_pid /\ input_mode = "confirm"))
    /\ []((Lower(last_key) = "y" /\ actions # None /\ pc \in ReturnedPcs)
            => (input_mode = "normal" /\ pending_kill_pid = None))

\* 'Y' was confirmed, kill_process(2) has returned and the mode is normal.
C2_Witness ==
    /\ last_key = "Y"
    /\ actions = Some(2)
    /\ pc = "chk"
    /\ input_mode = "normal"
    /\ pending_kill_pid = None

\* C3: 'n', 'N' or Escape in confirm mode sets the mode to normal, clears
\* pending_kill_pid and calls kill_process for nothing; and kill_process is
\* called only for a 'y' or 'Y' handled in confirm mode.
C3_CancelNeverKills ==
    /\ [][(/\ HandlerCall
           /\ input_mode = "confirm"
           /\ (Lower(last_key') = "n" \/ last_key' = "escape"))
            => (/\ input_mode' = "normal"
                /\ pending_kill_pid' = None
                /\ actions' = None
                /\ pc' \notin KillPcs)]_vars
    /\ [][(actions' # actions /\ actions' # None)
            => (/\ HandlerCall
                /\ input_mode = "confirm"
                /\ Lower(last_key') = "y")]_vars
    /\ []((pc \in KillPcs) => (actions # None /\ Lower(last_key) = "y"))

\* Escape has just cancelled a kill.
C3_Witness ==
    /\ last_key = "escape"
    /\ message = MsgKillCancelled
    /\ pc = "h_color_e"
    /\ input_mode = "normal"
    /\ pending_kill_pid = None
    /\ actions = None

\* C4: confirm mode is entered only by 'k' or 'K' in select mode, with
\* pending_kill_pid the pid at row selected_process of the list as the
\* last update_layout left it; the pid stays the same as long as the mode
\* is confirm, whatever update_layout makes of the list; and kill_process
\* is called with it.
C4_KillsThePidChosen ==
    /\ [][(input_mode' = "confirm" /\ input_mode # "confirm")
            => (/\ HandlerCall
                /\ input_mode = "select"
                /\ Lower(last_key') = "k"
                /\ selected_process < Len(top_processes)
                /\ pending_kill_pid'
                     = Some(top_processes[selected_process + 1]))]_vars
    /\ [][(top_processes' # top_processes) => pc = "render"]_vars
    /\ [][(input_mode = "confirm" /\ input_mode' = "confirm")
            => pending_kill_pid' = pending_kill_pid]_vars
    /\ [][(actions' # actions /\ actions' # None)
            => (input_mode = "confirm" /\ actions' = pending_kill_pid)]_vars

\* kill_process is called with pid 2, chosen as the second row of a list
\* that has since been refreshed to hold pid 1 alone.
C4_Witness ==
    /\ pc = "kill_call"
    /\ actions = Some(2)
    /\ selected_process = 1
    /\ top_processes = << 1 >>

\* C5: an Up or Down key in select mode leaves the mode select and moves
\* selected_process by at most one; Up never moves it below 0, Down never
\* moves it past len(top_processes) - 1; and an index within the list stays
\* within the list.
C5_UpDownStayInList ==
    /\ [][(HandlerCall /\ input_mode = "select" /\ last_key' \in {"up", "down"})
            => (/\ input_mode' = "select"
                /\ selected_process' \in {selected_process - 1,
                                          selected_process,
                                          selected_process + 1}
                /\ selected_process' >= 0
                /\ (selected_process' < selected_process) => last_key' = "up"
                /\ (selected_process' > selected_process)
                     => (/\ last_key' = "down"
                         /\ selected_process' <= Len(top_processes) - 1)
                /\ (selected_process <= Len(top_processes) - 1)
                     => (selected_process' <= Len(top_processes) - 1))]_vars
    /\ [](selected_process >= 0)

\* Down was pressed and the last row of a list of two is selected.
C5_Witness ==
    /\ last_key = "down"
    /\ input_mode = "select"
    /\ pc = "render"
    /\ Len(top_processes) = 2
    /\ selected_process = 1

\* C6: in select mode with a list that is not empty, selected_process is an
\* index of the list.
C6_IndexWithinList ==
    (input_mode = "select" /\ Len(top_processes) > 0)
        => (0 <= selected_process /\ selected_process < Len(top_processes))

\* C7: 'k' or 'K' in select mode with an empty list leaves the mode select
\* and pending_kill_pid None and calls kill_process for nothing.
C7_EmptyListIgnoresKill ==
    [][(/\ HandlerCall
        /\ input_mode = "select"
        /\ top_processes = << >>
        /\ Lower(last_key') = "k")
         => (/\ input_mode' = "select"
             /\ pending_kill_pid' = None
             /\ actions' = None
             /\ pc' = "chk"
             /\ selected_process' = selected_process)]_vars

\* 'k' was pressed in select mode (row 1 was selected, so the mode was
\* select before the key) while the list was empty.
C7_Witness ==
    /\ Lower(last_key) = "k"
    /\ pc = "chk"
    /\ input_mode = "select"
    /\ selected_process = 1
    /\ top_processes = << >>

\* C8: the interaction state is written by the main loop alone: a step that
\* changes input_mode, selected_process, pending_kill_pid, message or
\* message_color is not a step of a delayed-clear thread.
C8_SingleWriter ==
    [][(interaction' # interaction) => (thr' = thr)]_vars

\* C9: a message is never on display for more than ClearDelay seconds.
C9_MessageExpires ==
    (message # MsgNone) => (msgAge <= ClearDelay)

\* C10: the main loop never waits in sys.stdin.read(2) for characters that
\* have not arrived.
C10_ReadNeverBlocks ==
    ~(pc = "read2" /\ Len(Available) < 2)

\* C11: when the iteration goes on to update_layout, every byte that had
\* been typed has been read: none is left for a later iteration.
C11_AllKeysDrained ==
    (pc = "render") => (Available = << >>)

\* C12: a step that reads a Ctrl+C byte from the input ends the loop, leaves
\* input_mode, selected_process and pending_kill_pid as they were and does
\* not call kill_process.  The bytes a step reads are those at the front of
\* the input before it that are no longer there after it.
C12_InterruptEndsLoop ==
    [][(\E i \in 1..(Len(Available) - Len(Available')) : Available[i] = CTRLC)
         => (/\ pc' = "done"
             /\ input_mode' = input_mode
             /\ selected_process' = selected_process
             /\ pending_kill_pid' = pending_kill_pid
             /\ actions' = actions)]_vars

\* C13: while the loop runs the terminal is raw, and once run has returned,
\* by the Ctrl+C key or by an exception raised at any point of the loop, it
\* has its original settings again.
C13_TerminalRestored ==
    /\ (pc = "done") => (term = "cooked")
    /\ (pc \notin {"start", "done"}) => (term = "raw")

\* run was left by an exception raised while kill_process waited for the
\* process to exit, and the terminal is as it was before run.
C13_Witness ==
    /\ pc = "done"
    /\ term = "cooked"
    /\ ktrace = << "terminate" >>

\* C14: a source that fails does not abort the iteration: update_layout is
\* never left by an exception, with the calls after the failing source (and
\* the refresh of the process list among them) not made.
C14_FailureDoesNotAbort ==
    pc # "except"

\* C15: kill_process is left by its return alone, after it has assigned
\* message and message_color once each; the message and the colour are
\* those of the outcome (a process that no longer exists: "no longer
\* exists" in yellow); after the return the mode is normal and
\* pending_kill_pid is None.
C15_KillAlwaysReports ==
    /\ [][(pc \in KillPcs /\ pc' \notin KillPcs)
            => (pc = "k_color" /\ pc' = "h_ret" /\ message_color' = col_next)]_vars
    /\ [][(pc \in KillPcs /\ pc # "k_color" /\ pc' = "k_color")
            => LET outcome == ktrace'[Len(ktrace')] IN
               /\ outcome \in {"exited", "kill"} \cup KillFailures
               /\ outcome = "exited"
                    => (message' = MsgTerminated /\ col_next' = "green")
               /\ outcome = "kill"
                    => (message' = MsgForceKilled /\ col_next' = "red")
               /\ outcome = "NoSuchProcess"
                    => (message' = MsgNoLongerExists /\ col_next' = "yellow")
               /\ outcome = "AccessDenied"
                    => (message' = MsgDenied /\ col_next' = "red")
               /\ outcome = "Exception"
                    => (message' = MsgError /\ col_next' = "red")]_vars
    /\ [][(pc \in KillPcs /\ thr' = thr /\ message' # message)
            => (pc # "k_color" /\ pc' = "k_color")]_vars
    /\ [][(pc \in KillPcs /\ thr' = thr /\ message_color' # message_color)
            => (pc = "k_color")]_vars
    /\ [][(pc = "h_ret" /\ pc' # "h_ret")
            => (/\ pc' = "chk"
                /\ input_mode' = "normal"
                /\ pending_kill_pid' = None)]_vars

\* kill_process has returned for a pid that no longer existed.
C15_Witness ==
    /\ pc = "h_ret"
    /\ ktrace = << "NoSuchProcess" >>
    /\ message = MsgNoLongerExists
    /\ message_color = "yellow"

\* C16: process.kill() is called only third, after process.terminate() and
\* a wait that timed out, and the wait times out only when WaitTimeout
\* seconds have passed; a wait that returned is followed by no kill; the
\* wait lasts WaitTimeout seconds at most and at every position of
\* kill_process the next statement can run.
C16_GracefulThenForce ==
    /\ [](\A i \in 1..Len(ktrace) :
            /\ ktrace[i] = "kill"
                 => (/\ i = 3
                     /\ ktrace[1] = "terminate"
                     /\ ktrace[2] = "timeout")
            /\ ktrace[i] = "exited"
                 => ktrace = << "terminate", "exited" >>)
    /\ [][(ktrace' # ktrace /\ ktrace' # << >>
             /\ ktrace'[Len(ktrace')] = "timeout")
            => (kwait = WaitTimeout)]_vars
    /\ [](pc = "kill_wait" => kwait <= WaitTimeout)
    /\ [](pc = "kill_call" => ENABLED KillCall)
    /\ [](pc = "kill_wait" /\ kwait = WaitTimeout => ENABLED KillWaitTimeout)
    /\ [](pc = "kill_force" => ENABLED KillForce)
    /\ [](pc = "k_color" => ENABLED KillColor)

\* kill_process has returned after terminate, two seconds of waiting and
\* kill.
C16_Witness ==
    /\ pc = "h_ret"
    /\ ktrace = << "terminate", "timeout", "kill" >>
    /\ message = MsgForceKilled

\* C17: a call of get_network_info divides by nothing but a positive
\* elapsed time; with an elapsed time of zero or less both speeds are 0;
\* with more, each speed times the elapsed time is the difference of the
\* counter; after the call the previous sample and its time are the ones
\* the call read.
C17_NetworkSpeed ==
    [][/\ upload_speed'.den > 0
       /\ download_speed'.den > 0
       /\ network_stats_prev' = net_sample'.stats
       /\ network_update_time' = net_sample'.time
       /\ LET elapsed == net_sample'.time - network_update_time
              sent == net_sample'.stats.bytes_sent
                         - network_stats_prev.bytes_sent
              recv == net_sample'.stats.bytes_recv
                         - network_stats_prev.bytes_recv
          IN /\ elapsed <= 0
                  => (upload_speed'.num = 0 /\ download_speed'.num = 0)
             /\ elapsed > 0
                  => (/\ upload_speed'.num * elapsed
                            = sent * upload_speed'.den
                      /\ download_speed'.num * elapsed
                            = recv * download_speed'.den)]_vars

\* The clock went back by a second while both counters went up by two:
\* both speeds are 0 and the sample has replaced the previous one.
C17_Witness ==
    /\ time_delta = -1
    /\ net_sample = Sample([bytes_sent |-> 2, bytes_recv |-> 2], 0)
    /\ network_stats_prev = net_sample.stats
    /\ network_update_time = 0
    /\ upload_speed = ZeroSpeed
    /\ download_speed = ZeroSpeed

\* C18: a key is given to the handler only at the start of an iteration;
\* the process list is collected and the iteration goes on to its sleep
\* only from update_layout; update_layout starts only when the handler has
\* made all its assignments and kill_process, if the key called it, has
\* returned and lines 397-398 have run; the next iteration starts only
\* after update_layout, and with no call of kill_process under way.
C18_TickOrder ==
    /\ [][HandlerCall => (pc \in {"poll", "read2"})]_vars
    /\ [][(top_processes' # top_processes
             \/ (pc' \in {"sleep", "except"} /\ pc' # pc))
            => (pc = "render")]_vars
    /\ [](pc = "render"
            => (/\ col_next = "none"
                /\ ktrace = << >>
                /\ actions # None
                     => (input_mode = "normal" /\ pending_kill_pid = None)))
    /\ [][(pc' = "poll" /\ pc # "poll")
            => (pc \in {"start", "sleep", "except"})]_vars
    /\ [](pc = "poll" => (ktrace = << >> /\ col_next = "none"))

\* 'y' was given to the handler in this iteration, kill_process has
\* returned and update_layout is about to run.
C18_Witness ==
    /\ pc = "render"
    /\ Lower(last_key) = "y"
    /\ actions # None
    /\ input_mode = "normal"
    /\ message = MsgTerminated

\* C19: the mode becomes select only by 'k' or 'K' given to the handler in
\* normal mode, and that key sets selected_process to 0 and message to "".
C19_SelectEntry ==
    /\ [][(input_mode' = "select" /\ input_mode # "select")
            => (/\ HandlerCall
                /\ input_mode = "normal"
                /\ Lower(last_key') = "k"
                /\ selected_process' = 0
                /\ message' = MsgNone)]_vars
    /\ [][(HandlerCall /\ input_mode = "normal" /\ Lower(last_key') = "k")
            => (/\ input_mode' = "select"
                /\ selected_process' = 0
                /\ message' = MsgNone)]_vars

\* 'K' was pressed in normal mode while the red message of a kill was on
\* display: the mode is select, row 0 is selected and the message is gone.
C19_Witness ==
    /\ last_key = "K"
    /\ pc = "chk"
    /\ input_mode = "select"
    /\ selected_process = 0
    /\ message = MsgNone
    /\ message_color = "red"

\* C20: a key other than 'k' and 'K' given to the handler in normal mode,
\* and a key other than 'y', 'Y', 'n', 'N' and Escape given to it in confirm
\* mode, leaves input_mode, selected_process, pending_kill_pid and message
\* as they were and calls kill_process for nothing.
C20_NoOpKeys ==
    [][(/\ HandlerCall
        /\ \/ input_mode = "normal" /\ Lower(last_key') # "k"
           \/ /\ input_mode = "confirm"
              /\ Lower(last_key') \notin {"y", "n"}
              /\ last_key' # "escape")
         => (/\ input_mode' = input_mode
             /\ selected_process' = selected_process
             /\ pending_kill_pid' = pending_kill_pid
             /\ message' = message
             /\ actions' = None
             /\ pc' \notin KillPcs)]_vars

\* Up was pressed in confirm mode: the mode is still confirm, row 1 is
\* still selected and its pid is still pending.
C20_Witness ==
    /\ last_key = "up"
    /\ pc = "render"
    /\ input_mode = "confirm"
    /\ selected_process = 1
    /\ pending_kill_pid = Some(2)

\* C21: a delayed-clear thread never removes a message that has been on
\* display for less than ClearDelay seconds: when a step of a thread sets
\* message to "", the message it removes is at least ClearDelay seconds old.
C21_ClearSparesYoungMessage ==
    [][(thr' # thr /\ message # MsgNone /\ message' = MsgNone)
         => (msgAge >= ClearDelay)]_vars

\* C22: where the main loop reads the pair (the check of line 540 and
\* update_layout), a message that is not empty does not have the colour
\* "white".
C22_MessageHasColour ==
    (pc \in {"chk", "render"})
        => ~(message # MsgNone /\ message_color = "white")

====
